---- MODULE Spec2Model ----
(***************************************************************************)
(* miniplot: the MiniPlot builder (src/src/lib.rs) as a state machine.     *)
(*                                                                         *)
(* The state is the three fields of MiniPlot (data, options, color_index), *)
(* the position of the caller in the method chain (phase, call, ncalls)    *)
(* and the last frame PlotWindow::update handed to egui_plot (frame).      *)
(* f64 values are modelled by integers: the builder never computes with    *)
(* them, it only stores and pairs them.                                    *)
(***************************************************************************)
EXTENDS Integers, Sequences, FiniteSets, TLC

VARIABLES data, options, color_index, phase, frame, call, ncalls

vars == <<data, options, color_index, phase, frame, call, ncalls>>

(***************************************************************************)
(* Bounds of the model.                                                    *)
(***************************************************************************)
MaxCalls == 3
MaxLen == 3
MaxRows == 2
MaxCols == 2

(***************************************************************************)
(* Option<T>, String and format! helpers.                                  *)
(***************************************************************************)
None == <<>>

Some(v) == <<v>>

unwrap_or_default(o) == IF o = None THEN "" ELSE o[1]

format_Line(n) == "Line " \o ToString(n)

format_Row(i) == "Row " \o ToString(i)

Min(a, b) == IF a < b THEN a ELSE b

(***************************************************************************)
(* Inputs of the calls.                                                    *)
(***************************************************************************)
Titles == {"Joint Angles"}

Labels == {"Time", "Angle [rad]"}

Names == {"Line"}

Colors == {"RED"}

Ratios == {0, 1, 2}

\* y containers: <<>>, <<5>>, <<5, 6>>, ... (distinct values, so that a
\* reordering shows)
Lines == {[j \in 1..n |-> 4 + j] : n \in 0..MaxLen}

\* x containers <<10, 20, ...>>: one element and the two longest (shorter
\* than, as long as and longer than the y containers and matrix rows)
Xs == {[j \in 1..n |-> 10 * j] : n \in {1, MaxLen - 1, MaxLen}}

\* ready-made coordinate pairs for plot_points
PointLists == {[j \in 1..n |-> <<20 * j, 30 - j>>] : n \in {0, MaxLen}}

\* nalgebra matrices are stored column-major: element (r, c), 0-based, is
\* data[c * nrows + r + 1]
\* DMatrix::from_fn(R, C, f) with f(r, c) = Elem(r, c)
Elem(r, c) == 100 + 10 * r + c

from_fn(R, C) == [nrows |-> R, ncols |-> C, data |-> [k \in 1..(R * C) |-> Elem((k - 1) % R, (k - 1) \div R)]]

\* DMatrix<f64> with 0..MaxRows rows; Xs has shorter, equal and longer x
Matrices == {from_fn(R, MaxCols) : R \in 0..MaxRows}

\* SMatrix<f64, R, C>
SMatrices == {from_fn(R, MaxCols) : R \in {0, MaxRows}}

\* DVector<f64> handed to plot: a matrix of one column
DVectorLines == {from_fn(MaxLen, 1)}

\* SMatrix<f64, R, C> handed to plot, with more than one row and column
SMatrixLines == {from_fn(MaxRows, MaxCols)}

\* M[(r, c)], 0-based
At(y, r, c) == y.data[c * y.nrows + r + 1]

\* (mutant) the storage read as if it were row-major
row_major(y, i) == [j \in 1..y.ncols |-> y.data[i * y.ncols + j]]

\* y.row(i): the elements (i, 0), (i, 1), ..., (i, ncols - 1)
row(y, i) == [j \in 1..y.ncols |-> At(y, i, j - 1)]

(***************************************************************************)
(* AsSliceF64 (conversion.rs): each container hands out its own storage.   *)
(***************************************************************************)
Vec_as_slice_f64(v) == v

slice_as_slice_f64(v) == v

DVector_as_slice_f64(m) == m.data

\* (mutant) the elements copied out row by row
SMatrix_row_major(m) == [k \in 1..(m.nrows * m.ncols) |-> m.data[((k - 1) % m.ncols) * m.nrows + ((k - 1) \div m.ncols) + 1]]

SMatrix_as_slice_f64(m) == m.data

(***************************************************************************)
(* ColorAllocator (utils::get_color): a fixed palette, cycled.             *)
(***************************************************************************)
Palette == <<"P1", "P2", "P3", "P4", "P5", "P6", "P7", "P8">>

next_color(k) == Palette[((k - 1) % Len(Palette)) + 1]

(***************************************************************************)
(* PlotData and the iterator chains of the ingestion methods.              *)
(***************************************************************************)
PlotData_default == [name |-> "", points |-> <<>>, color |-> "TRANSPARENT", dashed |-> FALSE, dotted |-> FALSE, pointed |-> FALSE]

PlotData(n, p, c) == [PlotData_default EXCEPT !.name = n, !.points = p, !.color = c]

\* (mutant) the shorter y is padded instead of the longer x being cut
zip_pad(a, b) == [j \in 1..Len(a) |-> <<a[j], IF j <= Len(b) THEN b[j] ELSE 0>>]

\* a.iter().zip(b).map(|(&x, &y)| [x, y]).collect()
zip(a, b) == [j \in 1..Min(Len(a), Len(b)) |-> <<a[j], b[j]>>]

\* (mutant) indices counted from 1
enumerate_from_1(line) == [j \in 1..Len(line) |-> <<j, line[j]>>]

\* line.iter().enumerate().map(|(i, &y)| [i as f64, y]).collect()
enumerate(line) == [j \in 1..Len(line) |-> <<j - 1, line[j]>>]

\* (mutant) the first series instead of the last
first_mut(d) == IF Len(d) = 0 THEN 0 ELSE 1

\* self.data.last_mut(): the position of the last series, 0 when there is none
last_mut(d) == Len(d)

(***************************************************************************)
(* MiniPlot::new                                                           *)
(***************************************************************************)
Init ==
    /\ \E window_name \in Titles :
        /\ options = [window_name |-> window_name, legend |-> FALSE, xlabel |-> None, ylabel |-> None, aspect_ratio |-> None]
        /\ call = [op |-> "new", args |-> <<window_name>>]
    /\ data = <<>>
    /\ color_index = 0
    /\ phase = "building"
    /\ frame = None
    /\ ncalls = 0

\* (mutant) methods taking &mut self: the value can still be used after show
Chain_after_show(op, args) ==
    /\ ncalls < MaxCalls
    /\ ncalls' = ncalls + 1
    /\ call' = [op |-> op, args |-> args]
    /\ UNCHANGED <<phase, frame>>

\* a builder method can be chained while the value has not been consumed
Chain(op, args) ==
    /\ phase = "building"
    /\ ncalls < MaxCalls
    /\ ncalls' = ncalls + 1
    /\ call' = [op |-> op, args |-> args]
    /\ UNCHANGED <<phase, frame>>

get_color ==
    /\ Chain("get_color", <<>>)
    /\ color_index' = color_index + 1
    /\ UNCHANGED <<data, options>>

\* (mutant) the first label is kept
xlabel_first(label) ==
    /\ Chain("xlabel", <<label>>)
    /\ options' = IF options.xlabel = None THEN [options EXCEPT !.xlabel = Some(label)] ELSE options
    /\ UNCHANGED <<data, color_index>>

xlabel(label) ==
    /\ Chain("xlabel", <<label>>)
    /\ options' = [options EXCEPT !.xlabel = Some(label)]
    /\ UNCHANGED <<data, color_index>>

\* (mutant) the label is also given to the last series as its name
ylabel_and_name(label) ==
    /\ Chain("ylabel", <<label>>)
    /\ options' = [options EXCEPT !.ylabel = Some(label)]
    /\ data' = IF last_mut(data) = 0 THEN data ELSE [data EXCEPT ![last_mut(data)].name = label]
    /\ UNCHANGED color_index

ylabel(label) ==
    /\ Chain("ylabel", <<label>>)
    /\ options' = [options EXCEPT !.ylabel = Some(label)]
    /\ UNCHANGED <<data, color_index>>

\* (mutant) a colour is taken before the loop looks at the number of rows
RECURSIVE push_rows_color_first(_, _, _, _, _)
push_rows_color_first(d, ci, x, y, i) ==
    IF i >= y.nrows THEN [data |-> d, color_index |-> IF y.nrows = 0 THEN ci + 1 ELSE ci]
    ELSE push_rows_color_first(Append(d, PlotData(format_Row(i), zip(x, row(y, i)), next_color(ci + 1))), ci + 1, x, y, i + 1)

\* the for loop of matrix_rows / smatrix_rows: rows i .. nrows - 1 pushed
\* onto d, the counter advanced once per row
RECURSIVE push_rows(_, _, _, _, _)
push_rows(d, ci, x, y, i) ==
    IF i >= y.nrows THEN [data |-> d, color_index |-> ci]
    ELSE push_rows(Append(d, PlotData(format_Row(i), zip(x, row(y, i)), next_color(ci + 1))), ci + 1, x, y, i + 1)

matrix_rows(x, y) ==
    /\ Chain("matrix_rows", <<x, y>>)
    /\ data' = push_rows(data, color_index, x, y, 0).data
    /\ color_index' = push_rows(data, color_index, x, y, 0).color_index
    /\ UNCHANGED options

smatrix_rows(x, y) ==
    /\ Chain("smatrix_rows", <<x, y>>)
    /\ data' = push_rows(data, color_index, x, y, 0).data
    /\ color_index' = push_rows(data, color_index, x, y, 0).color_index
    /\ UNCHANGED options

\* (mutant) creates a series when there is none
dashed_or_insert ==
    /\ Chain("dashed", <<>>)
    /\ data' = IF last_mut(data) = 0 THEN <<[PlotData_default EXCEPT !.dashed = TRUE]>> ELSE [data EXCEPT ![last_mut(data)].dashed = TRUE]
    /\ UNCHANGED <<options, color_index>>

dashed ==
    /\ Chain("dashed", <<>>)
    /\ data' = IF last_mut(data) = 0 THEN data ELSE [data EXCEPT ![last_mut(data)].dashed = TRUE]
    /\ UNCHANGED <<options, color_index>>

\* (mutant) dotted switches dashed off
dotted_exclusive ==
    /\ Chain("dotted", <<>>)
    /\ data' = IF last_mut(data) = 0 THEN data ELSE [data EXCEPT ![last_mut(data)].dotted = TRUE, ![last_mut(data)].dashed = FALSE]
    /\ UNCHANGED <<options, color_index>>

dotted ==
    /\ Chain("dotted", <<>>)
    /\ data' = IF last_mut(data) = 0 THEN data ELSE [data EXCEPT ![last_mut(data)].dotted = TRUE]
    /\ UNCHANGED <<options, color_index>>

pointed ==
    /\ Chain("pointed", <<>>)
    /\ data' = IF last_mut(data) = 0 THEN data ELSE [data EXCEPT ![last_mut(data)].pointed = TRUE]
    /\ UNCHANGED <<options, color_index>>

\* (mutant) legend as a toggle
legend_toggle ==
    /\ Chain("legend", <<>>)
    /\ options' = [options EXCEPT !.legend = ~options.legend]
    /\ UNCHANGED <<data, color_index>>

legend ==
    /\ Chain("legend", <<>>)
    /\ options' = [options EXCEPT !.legend = TRUE]
    /\ UNCHANGED <<data, color_index>>

color(c) ==
    /\ Chain("color", <<c>>)
    /\ data' = IF last_mut(data) = 0 THEN data ELSE [data EXCEPT ![last_mut(data)].color = c]
    /\ UNCHANGED <<options, color_index>>

\* (mutant) the window title is set instead of the name of the last series
name_sets_title(s) ==
    /\ Chain("name", <<s>>)
    /\ options' = [options EXCEPT !.window_name = s]
    /\ UNCHANGED <<data, color_index>>

name(s) ==
    /\ Chain("name", <<s>>)
    /\ data' = IF last_mut(data) = 0 THEN data ELSE [data EXCEPT ![last_mut(data)].name = s]
    /\ UNCHANGED <<options, color_index>>

\* (mutant) the new series is put in front
plot_front(line) ==
    /\ Chain("plot", <<line>>)
    /\ color_index' = color_index + 1
    /\ data' = <<PlotData(format_Line(Len(data)), enumerate(line), next_color(color_index + 1))>> \o data
    /\ UNCHANGED options

plot(line) ==
    /\ Chain("plot", <<line>>)
    /\ color_index' = color_index + 1
    /\ data' = Append(data, PlotData(format_Line(Len(data)), enumerate(Vec_as_slice_f64(line)), next_color(color_index + 1)))
    /\ UNCHANGED options

\* plot::<DVector<f64>>
plot_dvector(line) ==
    /\ Chain("plot_dvector", <<line>>)
    /\ color_index' = color_index + 1
    /\ data' = Append(data, PlotData(format_Line(Len(data)), enumerate(DVector_as_slice_f64(line)), next_color(color_index + 1)))
    /\ UNCHANGED options

\* plot::<SMatrix<f64, R, C>>
plot_smatrix(line) ==
    /\ Chain("plot_smatrix", <<line>>)
    /\ color_index' = color_index + 1
    /\ data' = Append(data, PlotData(format_Line(Len(data)), enumerate(SMatrix_as_slice_f64(line)), next_color(color_index + 1)))
    /\ UNCHANGED options

\* (mutant) the colour of the current index is used, the counter is not advanced
plot_xy_no_advance(x, y) ==
    /\ Chain("plot_xy", <<x, y>>)
    /\ color_index' = color_index
    /\ data' = Append(data, PlotData(format_Line(Len(data)), zip(Vec_as_slice_f64(x), Vec_as_slice_f64(y)), next_color(color_index + 1)))
    /\ UNCHANGED options

plot_xy(x, y) ==
    /\ Chain("plot_xy", <<x, y>>)
    /\ color_index' = color_index + 1
    /\ data' = Append(data, PlotData(format_Line(Len(data)), zip(Vec_as_slice_f64(x), Vec_as_slice_f64(y)), next_color(color_index + 1)))
    /\ UNCHANGED options

plot_points(points) ==
    /\ Chain("plot_points", <<points>>)
    /\ color_index' = color_index + 1
    /\ data' = Append(data, PlotData(format_Line(Len(data)), points, next_color(color_index + 1)))
    /\ UNCHANGED options

aspect_ratio(ratio) ==
    /\ Chain("aspect_ratio", <<ratio>>)
    /\ options' = [options EXCEPT !.aspect_ratio = Some(ratio)]
    /\ UNCHANGED <<data, color_index>>

\* (mutant) a ratio already set is kept
square_if_unset ==
    /\ Chain("square_aspect_ratio", <<>>)
    /\ options' = IF options.aspect_ratio = None THEN [options EXCEPT !.aspect_ratio = Some(1)] ELSE options
    /\ UNCHANGED <<data, color_index>>

square_aspect_ratio ==
    /\ Chain("square_aspect_ratio", <<>>)
    /\ options' = [options EXCEPT !.aspect_ratio = Some(1)]
    /\ UNCHANGED <<data, color_index>>

(***************************************************************************)
(* Finalization: show consumes the MiniPlot; eframe::run_native either     *)
(* fails (the expect panics) or owns a PlotWindow whose update draws the   *)
(* plot on every frame.                                                    *)
(***************************************************************************)
show ==
    /\ phase = "building"
    /\ \E ok \in BOOLEAN : phase' = IF ok THEN "shown" ELSE "failed"
    /\ call' = [op |-> "show", args |-> <<options.window_name>>]
    /\ UNCHANGED <<data, options, color_index, frame, ncalls>>

\* call.args of show is the title handed to eframe::run_native

\* (mutant) dotted tested before dashed
LineStyle_dotted_first(d) == IF d.dotted THEN "dotted_loose" ELSE IF d.dashed THEN "dashed_loose" ELSE "Solid"

LineStyle(d) == IF d.dashed THEN "dashed_loose" ELSE IF d.dotted THEN "dotted_loose" ELSE "Solid"

\* what the body of the for loop of show_plot draws for one series
draw(d) ==
    <<[kind |-> "line", name |-> d.name, points |-> d.points, color |-> d.color, style |-> LineStyle(d), radius |-> 0]>>
    \o (IF d.pointed THEN <<[kind |-> "points", name |-> d.name, points |-> d.points, color |-> d.color, style |-> "", radius |-> 4]>> ELSE <<>>)

RECURSIVE draw_all(_)
draw_all(d) == IF d = <<>> THEN <<>> ELSE draw(Head(d)) \o draw_all(Tail(d))

\* view_aspect takes `aspect_ratio as f32`; every ratio in Ratios and the 1.0
\* of square_aspect_ratio is a small integer, which the cast leaves as it is
show_plot(d, o) ==
    [id |-> o.window_name,
     x_axis_label |-> unwrap_or_default(o.xlabel),
     y_axis_label |-> unwrap_or_default(o.ylabel),
     legend |-> o.legend,
     view_aspect |-> o.aspect_ratio,
     items |-> draw_all(d)]

update ==
    /\ phase = "shown"
    /\ frame' = Some(show_plot(data, options))
    /\ call' = [op |-> "update", args |-> <<>>]
    /\ UNCHANGED <<data, options, color_index, phase, ncalls>>

Next ==
    \/ get_color
    \/ \E label \in Labels : xlabel(label)
    \/ \E label \in Labels : ylabel(label)
    \/ \E x \in Xs, y \in Matrices : matrix_rows(x, y)
    \/ \E x \in Xs, y \in SMatrices : smatrix_rows(x, y)
    \/ dashed
    \/ dotted
    \/ pointed
    \/ legend
    \/ \E c \in Colors : color(c)
    \/ \E s \in Names : name(s)
    \/ \E line \in Lines : plot(line)
    \/ \E line \in DVectorLines : plot_dvector(line)
    \/ \E line \in SMatrixLines : plot_smatrix(line)
    \/ \E x \in Xs, y \in Lines : plot_xy(x, y)
    \/ \E points \in PointLists : plot_points(points)
    \/ \E ratio \in Ratios : aspect_ratio(ratio)
    \/ square_aspect_ratio
    \/ show
    \/ update

Spec == Init /\ [][Next]_vars

TypeOK ==
    /\ color_index \in Nat
    /\ phase \in {"building", "shown", "failed"}
    /\ ncalls \in 0..MaxCalls

(***************************************************************************)
(* Vocabulary of the properties.                                           *)
(***************************************************************************)
LastSeriesMutators == {"dashed", "dotted", "pointed", "color", "name"}

Appends == {"plot", "plot_dvector", "plot_smatrix", "plot_xy", "plot_points", "matrix_rows", "smatrix_rows"}

\* series s with the field that mutator op (with arguments args) sets
Mutated(s, op, args) ==
    CASE op = "dashed" -> [s EXCEPT !.dashed = TRUE]
      [] op = "dotted" -> [s EXCEPT !.dotted = TRUE]
      [] op = "pointed" -> [s EXCEPT !.pointed = TRUE]
      [] op = "color" -> [s EXCEPT !.color = args[1]]
      [] op = "name" -> [s EXCEPT !.name = args[1]]

\* C1: on a MiniPlot without series, dashed, dotted, pointed, color and name
\* are no-ops: the call goes through, there is still no series, and options
\* and colour counter are unchanged.
C1_MutatorOnEmptyIsNoOp ==
    [][(call'.op \in LastSeriesMutators /\ Len(data) = 0) =>
        (data' = <<>> /\ options' = options /\ color_index' = color_index /\ phase' = "building")]_vars

C1_Witness == call.op \in LastSeriesMutators /\ data = <<>> /\ ncalls > 0

\* C2: with n >= 1 series a last-series mutator changes only its own field of
\* the series at position n (1-based); the series before it are untouched.
C2_Retargeting ==
    [][(call'.op \in LastSeriesMutators /\ Len(data) >= 1) =>
        /\ Len(data') = Len(data)
        /\ \A i \in 1..(Len(data) - 1) : data'[i] = data[i]
        /\ data'[Len(data)] = Mutated(data[Len(data)], call'.op, call'.args)]_vars

\* after matrix_rows with two rows, color changed the last row only
C2_Witness ==
    /\ call.op = "color"
    /\ Len(data) >= 2
    /\ data[Len(data) - 1].name = "Row 0"
    /\ data[Len(data)].name = "Row 1"
    /\ data[Len(data)].color = call.args[1]
    /\ data[Len(data) - 1].color # call.args[1]

\* C3: every step leaves the series sequence a prefix of the new one, except
\* for name, colour and style flags of the series that was last; points and
\* positions never change.
C3_AppendOnly ==
    [][/\ Len(data') >= Len(data)
       /\ \A i \in 1..(Len(data) - 1) : data'[i] = data[i]
       /\ \A i \in 1..Len(data) : data'[i].points = data[i].points]_vars

C3_Witness ==
    /\ call.op \in Appends
    /\ Len(data) >= 3
    /\ data[1].points # <<>>
    /\ data[1].dashed

\* the step kept every series that was there
KeepsSeries == Len(data') >= Len(data) /\ SubSeq(data', 1, Len(data)) = data

\* C4 (as stated): the k-th series appended, k counted from 1, gets the
\* default colour next_color(k), in every state the public methods reach.
C4_KthSeriesGetsKthColor ==
    [][\A k \in (Len(data) + 1)..Len(data') : data'[k].color = next_color(k)]_vars

\* C5: plot(values) appends exactly one series: points (0, v0), (1, v1), ...,
\* all style flags false, name "Line n" with n the number of series before
\* the call; plot_xy and plot_points name their series the same way.
C5_Plot ==
    [][/\ call'.op = "plot" =>
            /\ KeepsSeries
            /\ Len(data') = Len(data) + 1
            /\ LET s == data'[Len(data')]
                   values == call'.args[1]
               IN /\ Len(s.points) = Len(values)
                  /\ \A j \in 1..Len(values) : s.points[j] = <<j - 1, values[j]>>
                  /\ ~s.dashed /\ ~s.dotted /\ ~s.pointed
                  /\ s.name = "Line " \o ToString(Len(data))
       /\ call'.op \in {"plot_xy", "plot_points"} =>
            /\ Len(data') = Len(data) + 1
            /\ data'[Len(data')].name = "Line " \o ToString(Len(data))]_vars

\* plot after matrix_rows with two rows: the rows count, the name is "Line 2"
C5_Witness ==
    /\ call.op = "plot"
    /\ Len(data) = 3
    /\ data[2].name = "Row 1"
    /\ data[3].name = "Line 2"
    /\ data[3].points = <<<<0, 5>>, <<1, 6>>, <<2, 7>>>>

\* C6: plot_xy(x, y) appends exactly one series of min(|x|, |y|) points, the
\* i-th being (x[i], y[i]); the other series and the options are unchanged.
C6_PlotXY ==
    [][call'.op = "plot_xy" =>
        /\ KeepsSeries
        /\ Len(data') = Len(data) + 1
        /\ options' = options
        /\ phase' = "building"
        /\ LET s == data'[Len(data')]
               x == call'.args[1]
               y == call'.args[2]
           IN /\ Len(s.points) = Min(Len(x), Len(y))
              /\ \A i \in 1..Len(s.points) : s.points[i] = <<x[i], y[i]>>]_vars

\* three x values against two y values
C6_Witness ==
    /\ call.op = "plot_xy"
    /\ Len(call.args[1]) = 3
    /\ Len(call.args[2]) = 2
    /\ data[Len(data)].points = <<<<10, 5>>, <<20, 6>>>>

\* C7: matrix_rows and smatrix_rows with an R x C matrix append R series
\* after those present, row i as min(C, |x|) points (x[j], M[i][j]) named
\* "Row i", whatever the number of series before.
C7_MatrixRows ==
    [][call'.op \in {"matrix_rows", "smatrix_rows"} =>
        LET x == call'.args[1]
            M == call'.args[2]
        IN /\ KeepsSeries
           /\ Len(data') = Len(data) + M.nrows
           /\ \A i \in 0..(M.nrows - 1) :
                LET s == data'[Len(data) + i + 1]
                IN /\ s.name = "Row " \o ToString(i)
                   /\ Len(s.points) = Min(M.ncols, Len(x))
                   /\ \A j \in 0..(Len(s.points) - 1) : s.points[j + 1] = <<x[j + 1], Elem(i, j)>>]_vars

\* a 2 x 2 matrix and three x values, onto a specification with a series
C7_Witness ==
    /\ call.op = "matrix_rows"
    /\ call.args[2].nrows = 2
    /\ call.args[2].ncols = 2
    /\ Len(call.args[1]) = 3
    /\ Len(data) = 3
    /\ data[3].name = "Row 1"
    /\ data[3].points = <<<<10, 110>>, <<20, 111>>>>

\* the items of a frame that are lines / markers
LinesOf(f) == SelectSeq(f.items, LAMBDA it : it.kind = "line")

\* position in f.items of the line of series i
LinePos(f, i) == i + Cardinality({k \in 1..(i - 1) : data[k].pointed})

\* C8: a frame draws the series in append order, each line dashed if its
\* dashed flag is set, else dotted if its dotted flag is set, else solid;
\* markers follow the line exactly when pointed is set, in the line's colour.
C8_Rendering ==
    frame # None =>
        LET f == frame[1]
        IN /\ Len(LinesOf(f)) = Len(data)
           /\ Len(f.items) = Len(data) + Cardinality({k \in 1..Len(data) : data[k].pointed})
           /\ \A i \in 1..Len(data) :
                LET l == f.items[LinePos(f, i)]
                IN /\ l.kind = "line"
                   /\ l.name = data[i].name
                   /\ l.points = data[i].points
                   /\ l.color = data[i].color
                   /\ l.style = (IF data[i].dashed THEN "dashed_loose" ELSE IF data[i].dotted THEN "dotted_loose" ELSE "Solid")
                   /\ data[i].pointed =>
                        /\ f.items[LinePos(f, i) + 1].kind = "points"
                        /\ f.items[LinePos(f, i) + 1].color = l.color
                        /\ f.items[LinePos(f, i) + 1].points = data[i].points

\* a series with both flags set is drawn dashed
C8_Witness ==
    /\ frame # None
    /\ \E i \in 1..Len(data) :
        /\ data[i].dashed
        /\ data[i].dotted
        /\ frame[1].items[LinePos(frame[1], i)].style = "dashed_loose"

\* C9: the legend flag starts false, legend() sets it, and no step resets it.
C9_LegendMonotone ==
    /\ options.legend = FALSE
    /\ [][/\ call'.op = "legend" => options'.legend
          /\ options.legend => options'.legend]_vars

C9_Witness == options.legend /\ call.op \in (Appends \cup LastSeriesMutators \cup {"xlabel", "aspect_ratio"})

\* C10: the x label is unset at first, xlabel(l) sets it to l and nothing
\* else changes it; likewise ylabel; the renderer gets the label, or the
\* empty string when it is unset.
C10_LabelsLastWins ==
    /\ options.xlabel = None /\ options.ylabel = None
    /\ [][/\ options'.xlabel = (IF call'.op = "xlabel" THEN Some(call'.args[1]) ELSE options.xlabel)
          /\ options'.ylabel = (IF call'.op = "ylabel" THEN Some(call'.args[1]) ELSE options.ylabel)]_vars
    /\ [](frame # None =>
            /\ frame[1].x_axis_label = (IF options.xlabel = None THEN "" ELSE options.xlabel[1])
            /\ frame[1].y_axis_label = (IF options.ylabel = None THEN "" ELSE options.ylabel[1]))

\* only xlabel was called before show: the y label is drawn empty
C10_Witness ==
    /\ frame # None
    /\ ncalls >= 2
    /\ data = <<>>
    /\ ~options.legend
    /\ options.aspect_ratio = None
    /\ color_index = 0
    /\ frame[1].x_axis_label = "Time"
    /\ frame[1].y_axis_label = ""

\* C11 (as stated): the aspect-ratio option is absent or strictly positive in
\* every state the builder's calls reach, aspect_ratio(r) with r <= 0 included.
C11_AspectRatioPositive ==
    options.aspect_ratio = None \/ options.aspect_ratio[1] > 0

\* the y coordinates of a series: with plot they are the flat sequence that
\* as_slice_f64 returned, in its order
Ys(s) == [j \in 1..Len(s.points) |-> s.points[j][2]]

\* C12 (as stated): as_slice_f64 returns as many values as the container has
\* elements, in element order; for an R x C matrix that order is row-major,
\* element (r, c) at flat index r * C + c.
C12_FlatOrderRowMajor ==
    [][/\ call'.op = "plot" => Ys(data'[Len(data')]) = call'.args[1]
       /\ call'.op \in {"plot_dvector", "plot_smatrix"} =>
            LET M == call'.args[1]
                ys == Ys(data'[Len(data')])
            IN /\ Len(ys) = M.nrows * M.ncols
               /\ \A r \in 0..(M.nrows - 1), c \in 0..(M.ncols - 1) : ys[r * M.ncols + c + 1] = Elem(r, c)]_vars

\* C12 (amended): as_slice_f64 returns as many values as the container has
\* elements, in storage order: element order for Vec and DVector, and
\* column-major for an R x C matrix, element (r, c) at flat index c * R + r.
C12_FlatOrderColumnMajor ==
    [][/\ call'.op = "plot" => Ys(data'[Len(data')]) = call'.args[1]
       /\ call'.op \in {"plot_dvector", "plot_smatrix"} =>
            LET M == call'.args[1]
                ys == Ys(data'[Len(data')])
            IN /\ Len(ys) = M.nrows * M.ncols
               /\ \A r \in 0..(M.nrows - 1), c \in 0..(M.ncols - 1) : ys[c * M.nrows + r + 1] = Elem(r, c)]_vars

\* a matrix with several rows and columns was plotted: the second point is
\* element (1, 0), not element (0, 1)
C12_Witness ==
    /\ call.op = "plot_smatrix"
    /\ call.args[1].nrows > 1
    /\ call.args[1].ncols > 1
    /\ data[Len(data)].points[2] = <<1, Elem(1, 0)>>
    /\ Elem(1, 0) # Elem(0, 1)

\* C14: show applies to a MiniPlot that has not been consumed and consumes
\* it; from then on no builder call and no second show happens, series,
\* options and counter stay as they were at show, and every frame is drawn
\* from them.
C14_FinalizedOnce ==
    /\ [][/\ call'.op = "show" => (phase = "building" /\ phase' \in {"shown", "failed"})
          /\ phase # "building" =>
                /\ call'.op = "update"
                /\ phase' = phase
                /\ data' = data /\ options' = options /\ color_index' = color_index]_vars
    /\ [](frame # None =>
            /\ phase = "shown"
            /\ frame[1].id = options.window_name
            /\ frame[1].legend = options.legend
            /\ frame[1].view_aspect = options.aspect_ratio
            /\ Len(LinesOf(frame[1])) = Len(data)
            /\ \A i \in 1..Len(data) : frame[1].items[LinePos(frame[1], i)].points = data[i].points)

\* a frame of a finalized plot with series and options set
C14_Witness ==
    /\ phase = "shown"
    /\ call.op = "update"
    /\ frame # None
    /\ Len(data) >= 2
    /\ options.legend

\* C15: square_aspect_ratio() does what aspect_ratio(1) does: either call
\* sets the ratio (1 for the square one) and changes nothing else; the ratio
\* is unset at first and no other call changes it, so the last call wins.
C15_AspectRatioLastWins ==
    /\ options.aspect_ratio = None
    /\ [][IF call'.op \in {"aspect_ratio", "square_aspect_ratio"}
          THEN LET r == IF call'.op = "square_aspect_ratio" THEN 1 ELSE call'.args[1]
               IN /\ options' = [options EXCEPT !.aspect_ratio = <<r>>]
                  /\ data' = data
                  /\ color_index' = color_index
          ELSE options'.aspect_ratio = options.aspect_ratio]_vars

\* square_aspect_ratio() as the second call or later
C15_Witness ==
    /\ call.op = "square_aspect_ratio"
    /\ ncalls >= 2
    /\ options.aspect_ratio = <<1>>

\* C16: the title is the argument of MiniPlot::new, no call changes it, and
\* show hands that value to the renderer.
C16_TitleImmutable ==
    /\ call.op = "new" /\ options.window_name = call.args[1]
    /\ [][/\ options'.window_name = options.window_name
          /\ call'.op = "show" => call'.args = <<options.window_name>>]_vars
    /\ [](frame # None => frame[1].id = options.window_name)

\* shown after name(s) and other calls: the title is still the one given
C16_Witness ==
    /\ call.op = "show"
    /\ call.args[1] \in Titles
    /\ Len(data) >= 1
    /\ data[Len(data)].name \in Names

MatrixAppends == {"matrix_rows", "smatrix_rows"}

\* C17: matrix_rows / smatrix_rows with a matrix of zero rows changes
\* nothing, the colour counter included; a last-series mutator called right
\* after it acts on the series that is still the last one, or on nothing.
C17_ZeroRowsNoOp ==
    [][/\ (call'.op \in MatrixAppends /\ call'.args[2].nrows = 0) =>
            (data' = data /\ options' = options /\ color_index' = color_index)
       /\ (call.op \in MatrixAppends /\ call.args[2].nrows = 0 /\ call'.op \in LastSeriesMutators) =>
            data' = (IF data = <<>> THEN <<>> ELSE [data EXCEPT ![Len(data)] = Mutated(data[Len(data)], call'.op, call'.args)])]_vars

\* a zero-row matrix handed to a specification whose last series is styled
C17_Witness ==
    /\ call.op \in MatrixAppends
    /\ call.args[2].nrows = 0
    /\ Len(data) >= 1
    /\ data[Len(data)].dashed
    /\ color_index = Len(data)

FlagOps == {"dashed", "dotted", "pointed"}

\* the style flags of series s that are set
Flags(s) == {f \in FlagOps : s[f]}

\* C18: dashed, dotted and pointed add their flag to the set of flags of the
\* last series (so each is idempotent and any two commute), no step takes a
\* flag away from any series, and a series just appended has no flag set.
C18_FlagsSetOnly ==
    [][/\ Len(data') >= Len(data)
       /\ \A i \in 1..Len(data) :
            Flags(data'[i]) = Flags(data[i]) \cup (IF i = Len(data) /\ call'.op \in FlagOps THEN {call'.op} ELSE {})
       /\ \A i \in (Len(data) + 1)..Len(data') : Flags(data'[i]) = {}]_vars

\* dotted after dashed on the same series: both flags are set
C18_Witness ==
    /\ call.op = "dotted"
    /\ Len(data) >= 1
    /\ Flags(data[Len(data)]) = {"dashed", "dotted"}

SingleAppends == Appends \ MatrixAppends

\* C19: the colour counter is never below the number of series; neither
\* ever decreases; an append of one series raises both by 1, matrix_rows
\* with R rows raises both by R, and apart from appends and get_color no
\* call changes the counter.
C19_CounterAndSeries ==
    /\ [](color_index >= Len(data))
    /\ [][/\ color_index' >= color_index
          /\ Len(data') >= Len(data)
          /\ call'.op \in SingleAppends =>
                (color_index' = color_index + 1 /\ Len(data') = Len(data) + 1)
          /\ call'.op \in MatrixAppends =>
                (color_index' = color_index + call'.args[2].nrows /\ Len(data') = Len(data) + call'.args[2].nrows)
          /\ call'.op \notin (Appends \cup {"get_color"}) => color_index' = color_index]_vars

\* color(c) on the last of several series: the counter is where the appends
\* left it
C19_Witness ==
    /\ call.op = "color"
    /\ Len(data) >= 2
    /\ data[Len(data)].color \in Colors
    /\ color_index = Len(data)

ChartOps == {"xlabel", "ylabel", "legend", "aspect_ratio", "square_aspect_ratio"}

\* the option a chart-level call sets, and the value it sets it to
OptionOf(op) == IF op = "square_aspect_ratio" THEN "aspect_ratio" ELSE op

ValueOf(op, args) ==
    CASE op = "legend" -> TRUE
      [] op = "square_aspect_ratio" -> <<1>>
      [] OTHER -> <<args[1]>>

\* C20: a chart-level call sets its own option to a value given by its
\* argument alone and leaves the other options, the series and the colour
\* counter unchanged; appends and last-series mutators leave the options
\* unchanged, a mutator changes the series by its argument alone and an
\* append keeps the series and colours the new ones by the counter alone.
C20_ChartAndSeriesIndependent ==
    [][/\ call'.op \in ChartOps =>
            /\ options' = [options EXCEPT ![OptionOf(call'.op)] = ValueOf(call'.op, call'.args)]
            /\ data' = data
            /\ color_index' = color_index
       /\ call'.op \in LastSeriesMutators =>
            /\ options' = options
            /\ color_index' = color_index
            /\ data' = (IF data = <<>> THEN <<>> ELSE [data EXCEPT ![Len(data)] = Mutated(data[Len(data)], call'.op, call'.args)])
       /\ call'.op \in Appends =>
            /\ options' = options
            /\ KeepsSeries
            /\ color_index' = color_index + (Len(data') - Len(data))
            /\ \A k \in 1..(Len(data') - Len(data)) : data'[Len(data) + k].color = next_color(color_index + k)]_vars

\* a chart-level call made after series-level calls
C20_Witness ==
    /\ call.op \in ChartOps
    /\ Len(data) >= 1
    /\ data[Len(data)].name \in Names
====
